---------------------------- MODULE Spec2Model ----------------------------
(***************************************************************************)
(* The session and reliability layer of server.py: class Server with its   *)
(* registry of clients, its cache of reliable messages, its send queue and *)
(* the wire codec of the Transport*Message classes.                        *)
(*                                                                         *)
(* The driver is serve (lines 481-496): cleanup, getAll, sendAll, sleep,    *)
(* again and again; pc is the call it makes next.                          *)
(* Time is the value time() returns, in whole seconds.  One cycle reads    *)
(* one clock value: the clock advances during sleep(0.5), by nothing or by *)
(* any number of seconds, never within the three calls.                    *)
(* getAll is split at its loop: one step drains the socket (line 281), one *)
(* step routes one drained datagram (lines 282-312), one step returns      *)
(* (line 313).  Nothing else runs between these steps (single thread).     *)
(* The drain fixes how many datagrams were read; what each of them holds   *)
(* is drawn when the loop reaches it, which is the same set of runs as     *)
(* drawing the whole list at the drain, since the loop reads it in order.  *)
(* An exception that leaves a handler ends the process (serve catches      *)
(* nothing): exc records it and no action is enabled afterwards.           *)
(*                                                                         *)
(* Two smaller specifications exercise one part alone: CodecSpec takes one *)
(* message of any class through toDict and fromBytes, CacheSpec calls      *)
(* _cacheMessage and cleanup directly.                                     *)
(***************************************************************************)
EXTENDS Integers, Sequences, FiniteSets, TLC

\* ---------------------------------------------------------------- bounds
MaxTime == 3      \* the clock stops advancing here
MaxClients == 2   \* handshakes the network delivers in one run
MaxBatch == 2     \* datagrams one getAll drains

Addresses == {"a1", "a2"}
Data == {"x", "y"}
Ids == 1..MaxClients
MessageIds == {1}
None == 0         \* Python's None where an id or a messageId is expected

\* timeout, messageTimeout and cleanupPeriod are plain attributes that
\* __init__ sets (lines 237-241) and getSettings reads; a driver may assign
\* them before start().  The first setting has the proportions of the
\* defaults (5, 10, 5); the second keeps messages exactly as long as
\* clients; the third keeps messages for a shorter time than clients.
Settings ==
  { [timeout |-> 1, messageTimeout |-> 2, cleanupPeriod |-> 1],
    [timeout |-> 1, messageTimeout |-> 1, cleanupPeriod |-> 1],
    [timeout |-> 2, messageTimeout |-> 1, cleanupPeriod |-> 2] }

VARIABLES
  now,            \* time()
  timeout,        \* self.timeout
  messageTimeout, \* self.messageTimeout
  cleanupPeriod,  \* self.cleanupPeriod
  lastCleanup,    \* self._lastCleanup
  idCounter,      \* Server.Client.id, the class attribute
  clients,        \* self._clients: id -> [address, lastSeen]
  messageCache,   \* self._messageCache: <<clientId, messageId>> -> received
  sendQueue,      \* self._sendQueue: sequence of <<payload, address>>
  pc,             \* the call serve makes next; "routing" inside getAll
  exc,            \* the exception that left a handler, "none" before
  pending,        \* getAll: how many drained datagrams are not routed yet
  rawMessage,     \* getAll: the datagram routed last, <<payload, address>>
  messages,       \* getAll: the list it will return
  route,          \* getAll: the branch the last routed datagram took
  numCleaned,     \* serve: what cleanup returned, until getAll is called
  assigned,       \* history: the ids _createClient returned, in order
  evicted,        \* history: the ids cleanup deleted from the registry
  delivered,      \* history: key -> times its payload was appended (max 2)
  sinceCached,    \* history: the same, counted since the key was last absent
  lastFrom,       \* history: id -> address of its last accepted datagram
  codec           \* the codec exercised alone: [stage, message, bytes, result]

vars ==
  << now, timeout, messageTimeout, cleanupPeriod, lastCleanup, idCounter,
     clients, messageCache, sendQueue, pc, exc, pending, rawMessage,
     messages, route, numCleaned, assigned, evicted, delivered, sinceCached,
     lastFrom, codec >>

server == << timeout, messageTimeout, cleanupPeriod, lastCleanup, idCounter,
             clients, messageCache, sendQueue >>
settings == << timeout, messageTimeout, cleanupPeriod >>
history == << assigned, evicted, delivered, sinceCached, lastFrom >>

EmptyMap == [k \in {} |-> 0]
Keys == Ids \X MessageIds
Has(d, k) == k \in DOMAIN d
Min2(a, b) == IF a < b THEN a ELSE b

\* ------------------------------------------------ datagrams on the wire
\* A payload is the bytes of one datagram: json says whether json.loads
\* accepts them, the other fields are the keys of the decoded object.
handshakeRequest == [json |-> TRUE, type |-> "handshake", response |-> FALSE]
heartbeatRequest(i) ==
  [json |-> TRUE, type |-> "heartbeat", id |-> i, response |-> TRUE]
unreliableRequest(i, d) ==
  [json |-> TRUE, id |-> i, type |-> "general", response |-> FALSE,
   reliable |-> FALSE, data |-> d]
reliableRequest(i, m, d) ==
  [json |-> TRUE, id |-> i, type |-> "general", response |-> FALSE,
   reliable |-> TRUE, messageId |-> m, data |-> d]

\* Datagrams fromBytes (or the first use of its result) rejects.
NotJson == [json |-> FALSE]
rttRequest == [json |-> TRUE, type |-> "rtt", id |-> 1, response |-> FALSE]
HeartbeatNoId == [json |-> TRUE, type |-> "heartbeat", response |-> TRUE]

WellFormed ==
  {handshakeRequest}
    \cup {heartbeatRequest(i) : i \in Ids}
    \cup {unreliableRequest(i, d) : i \in Ids, d \in Data}
    \cup {reliableRequest(i, m, d) : i \in Ids, m \in MessageIds, d \in Data}
Undecodable == {NotJson, rttRequest, HeartbeatNoId}
\* What recvfrom returns: <<payload, address>>.
Datagrams == (WellFormed \X Addresses) \cup (Undecodable \X {"a1"})

\* ------------------------------------------------ the Transport* classes
TransportHandshakeMessage(address) ==
  [class |-> "TransportHandshakeMessage", address |-> address,
   type |-> "handshake", response |-> FALSE]
TransportHandshakeResponseMessage(address, id, sets) ==
  [class |-> "TransportHandshakeResponseMessage", address |-> address,
   type |-> "handshake", response |-> TRUE, id |-> id, settings |-> sets]
TransportDisconnectNotice(address, id) ==
  [class |-> "TransportDisconnectNotice", address |-> address,
   type |-> "disconnectNotice", response |-> FALSE, id |-> id]
TransportHeartbeatMessage(address, id) ==
  [class |-> "TransportHeartbeatMessage", address |-> address,
   type |-> "heartbeat", response |-> FALSE, id |-> id]
\* A constructor that marks every general message reliable.
TransportGeneralMessageAlwaysReliable(address, data, id, reliable, messageId) ==
  [class |-> "TransportGeneralMessage", address |-> address,
   type |-> "general", response |-> FALSE, id |-> id, reliable |-> TRUE,
   data |-> data, messageId |-> messageId]
TransportGeneralMessage(address, data, id, reliable, messageId) ==
  [class |-> "TransportGeneralMessage", address |-> address,
   type |-> "general", response |-> FALSE, id |-> id, reliable |-> reliable,
   data |-> data, messageId |-> messageId]
\* A response constructor that forgets the messageId it answers.
TransportGeneralResponseNoMessageId(address, id, messageId) ==
  [class |-> "TransportGeneralResponse", address |-> address,
   type |-> "general", response |-> TRUE, id |-> id, reliable |-> TRUE,
   data |-> "", messageId |-> None]
TransportGeneralResponse(address, id, messageId) ==
  [class |-> "TransportGeneralResponse", address |-> address,
   type |-> "general", response |-> TRUE, id |-> id, reliable |-> TRUE,
   data |-> "", messageId |-> messageId]
NoneType == [class |-> "NoneType"]

Returned(obj) == [exc |-> "none", obj |-> obj]
\* A call that raises returns nothing: obj is never read then.
Raised(e) == [exc |-> e, obj |-> NoneType]

\* TransportMessage.fromBytes: msg is <<payload, address>>.
fromBytes(msg) ==
  LET data == msg[1]
      address == msg[2]
  IN  IF ~data.json THEN Raised("ValueError")
      ELSE IF ~Has(data, "type") THEN Raised("KeyError")
      ELSE IF data.type = "handshake" THEN
        IF ~Has(data, "id") \/ data.id = None
          THEN Returned(TransportHandshakeMessage(address))
          \* TransportHandshakeResponseMessage(address, data) lacks its id
          ELSE Raised("TypeError")
      ELSE IF data.type = "heartbeat" THEN
        IF ~Has(data, "id") THEN Raised("KeyError")
        ELSE Returned(TransportHeartbeatMessage(address, data.id))
      ELSE IF data.type = "ttl" THEN Raised("NotImplementedError")
      ELSE IF data.type = "general" THEN
        IF ~(Has(data, "data") /\ Has(data, "id") /\ Has(data, "reliable"))
          THEN Raised("KeyError")
        ELSE Returned(TransportGeneralMessage(address, data.data, data.id,
               data.reliable,
               IF Has(data, "messageId") THEN data.messageId ELSE None))
      ELSE Returned(NoneType)

\* toDict of each class, as the bytes json.dumps makes of it.  The heartbeat
\* class has no override: the base toDict leaves its id out.
toDict(m) ==
  IF m.class = "TransportHandshakeResponseMessage" THEN
    [json |-> TRUE, type |-> m.type, response |-> m.response, id |-> m.id,
     settings |-> m.settings]
  ELSE IF m.class \in {"TransportGeneralMessage",
                       "TransportGeneralResponse"} THEN
    [json |-> TRUE, type |-> m.type, response |-> m.response, id |-> m.id,
     reliable |-> m.reliable, messageId |-> m.messageId, data |-> m.data]
  ELSE IF m.class = "TransportDisconnectNotice" THEN
    [json |-> TRUE, type |-> m.type, response |-> m.response, id |-> m.id]
  ELSE [json |-> TRUE, type |-> m.type, response |-> m.response]

\* TransportMessage.createResponse(message, id, settings=...)
createResponse(message, id, sets) ==
  LET clientId == IF id = None /\ Has(message, "id") THEN message.id ELSE id
  IN  IF message.type = "handshake"
        THEN TransportHandshakeResponseMessage(message.address, clientId, sets)
        ELSE TransportGeneralResponse(message.address, clientId,
                                      message.messageId)

\* TransportMessage.createMessage(address, clientId, "disconnectNotice")
createMessage(address, clientId) == TransportDisconnectNotice(address, clientId)

\* Server.sendResponse with immediate = False: the new send queue.
sendResponse(queue, tMessage) ==
  Append(queue, <<toDict(tMessage), tMessage.address>>)

getSettings == [timeout |-> timeout]

\* ------------------------------------------------------ registry, cache
\* A genId that hands out one fixed id (as SpaceBody does, line 440).
genIdFixed(id) == 1
\* Server.Client.genId: the new value of the class counter, which it returns.
genId(id) == id + 1

\* A _createClient that keeps one session per endpoint.
createClientOncePerEndpoint(registry, id, address, t) ==
  IF \E k \in DOMAIN registry : registry[k].address = address
    THEN registry
    ELSE (id :> [address |-> address, lastSeen |-> t]) @@ registry
\* Server.Client.__init__ after genId, stored by _createClient.
createClient(registry, id, address, t) ==
  (id :> [address |-> address, lastSeen |-> t]) @@ registry

\* An _updateClient that leaves the address as the handshake set it.
updateClientKeepsAddress(registry, message) == registry
\* An _updateClient that also sets lastSeen to the time of the message.
updateClientRefreshesLastSeen(registry, message) ==
  IF message.id \in DOMAIN registry
    THEN [registry EXCEPT ![message.id].address = message.address,
                          ![message.id].lastSeen = now]
    ELSE registry
\* Server._updateClient
updateClient(registry, message) ==
  IF message.id \in DOMAIN registry
    THEN [registry EXCEPT ![message.id].address = message.address]
    ELSE registry

\* Server.Message.__eq__ / __hash__: the key of a cache entry.
MessageKey(message) == <<message.id, message.messageId>>

\* An _isInCache that compares Message objects by identity (no __eq__).
isInCacheByIdentity(cache, message) == FALSE
\* Server._isInCache
isInCache(cache, message) == MessageKey(message) \in DOMAIN cache

\* Server._cacheMessage: the dict keeps the key object of the first insert
\* and takes the new value.
cacheMessage(cache, message, t) ==
  [k \in DOMAIN cache \cup {MessageKey(message)} |->
     IF k = MessageKey(message) THEN t ELSE cache[k]]

\* ------------------------------------------------------------- the start
\* The codec is not exercised while the server runs.
CodecIdle ==
  [stage |-> "idle", message |-> NoneType, bytes |-> NotJson,
   result |-> Returned(NoneType)]

Init ==
  /\ codec = CodecIdle
  /\ now = 0
  /\ \E s \in Settings :
       /\ timeout = s.timeout
       /\ messageTimeout = s.messageTimeout
       /\ cleanupPeriod = s.cleanupPeriod
  /\ lastCleanup = 0
  /\ idCounter = 0
  /\ clients = EmptyMap
  /\ messageCache = EmptyMap
  /\ sendQueue = <<>>
  /\ pc = "cleanup"
  /\ exc = "none"
  /\ pending = 0
  /\ rawMessage = <<>>
  /\ messages = <<>>
  /\ route = "none"
  /\ numCleaned = 0
  /\ assigned = <<>>
  /\ evicted = {}
  /\ delivered = [k \in Keys |-> 0]
  /\ sinceCached = [k \in Keys |-> 0]
  /\ lastFrom = EmptyMap

\* ------------------------------------------------------- the environment
\* Line 496: a second passes while serve sleeps.
Tick ==
  /\ pc = "sleep" /\ exc = "none"
  /\ now < MaxTime
  /\ now' = now + 1
  /\ UNCHANGED << codec, numCleaned >>
  /\ UNCHANGED << server, pc, exc, pending, rawMessage, messages, route,
                  history >>

\* Line 496 returns: the next cycle starts at line 488.
Wake ==
  /\ pc = "sleep" /\ exc = "none"
  /\ pc' = "cleanup"
  /\ UNCHANGED << codec, numCleaned >>
  /\ UNCHANGED << now, server, exc, pending, rawMessage, messages, route,
                  history >>

\* ------------------------------------------------------------ Server.getAll
\* Lines 280-281 with _dispatchMessages: recvfrom until BlockingIOError,
\* n datagrams were waiting.
dispatchMessages ==
  /\ pc = "getAll" /\ exc = "none"
  /\ pending' \in 0..MaxBatch
  /\ rawMessage' = <<>>
  /\ messages' = <<>>
  /\ route' = "none"
  /\ numCleaned' = 0      \* lines 489-490 have printed it: dead from here on
  /\ pc' = "routing"
  /\ UNCHANGED << codec, now, server, exc, history >>

\* Lines 355-361: recvfrom raises an OSError that is not BlockingIOError
\* after n datagrams were read.  The except clause does not match, the
\* error leaves _dispatchMessages and getAll; the n datagrams stay unrouted.
dispatchMessagesRaise ==
  /\ pc = "getAll" /\ exc = "none"
  /\ pending' \in 0..MaxBatch
  /\ exc' = "OSError"
  /\ UNCHANGED << codec, numCleaned, now, server, pc, rawMessage, messages,
                  route, history >>

Routing == pc = "routing" /\ exc = "none" /\ pending > 0
\* Line 283, and the check of line 285 that None fails.
Decodes(msg) == fromBytes(msg).exc = "none" /\ fromBytes(msg).obj.class # "NoneType"
\* A routing that skips the registry lookup of line 292.
KnownUnchecked(registry, msg) ==
  Decodes(msg) /\ fromBytes(msg).obj.type # "handshake"
Known(registry, msg) ==
  /\ Decodes(msg)
  /\ fromBytes(msg).obj.type # "handshake"
  /\ fromBytes(msg).obj.id \in DOMAIN registry
\* The loop moves on to the next drained datagram.
Routed(msg, branch) ==
  /\ rawMessage' = msg
  /\ pending' = pending - 1
  /\ route' = branch

\* Line 283 raises, or line 285 reads .type of None: nothing catches it.
getAllRaise ==
  /\ Routing
  /\ \E msg \in Datagrams :
       /\ ~Decodes(msg)
       /\ exc' = IF fromBytes(msg).exc # "none" THEN fromBytes(msg).exc
                 ELSE "AttributeError"
       /\ Routed(msg, "raise")
  /\ UNCHANGED << codec, numCleaned, now, server, pc, messages, history >>

\* Lines 285-290.  The network delivers MaxClients handshakes in a run.
getAllHandshake ==
  /\ Routing
  /\ idCounter < MaxClients
  /\ \E msg \in Datagrams :
       LET tMessage == fromBytes(msg).obj
           clientId == genId(idCounter)
           response == createResponse(tMessage, clientId, getSettings)
       IN  /\ Decodes(msg)
           /\ tMessage.type = "handshake"
           /\ idCounter' = clientId
           /\ clients' = createClient(clients, clientId, tMessage.address, now)
           /\ sendQueue' = sendResponse(sendQueue, response)
           /\ assigned' = Append(assigned, clientId)
           /\ lastFrom' = (clientId :> tMessage.address) @@ lastFrom
           /\ Routed(msg, "handshake")
  /\ UNCHANGED << codec, numCleaned >>
  /\ UNCHANGED << now, settings, lastCleanup, messageCache, pc, exc, messages,
                  evicted, delivered, sinceCached >>

\* Lines 292-294.
getAllUnknown ==
  /\ Routing
  /\ \E msg \in Datagrams :
       /\ Decodes(msg)
       /\ fromBytes(msg).obj.type # "handshake"
       /\ ~Known(clients, msg)
       /\ Routed(msg, "unknown")
  /\ UNCHANGED << codec, numCleaned, now, server, pc, exc, messages, history >>

\* Lines 296-298.
getAllHeartbeat ==
  /\ Routing
  /\ \E msg \in Datagrams :
       LET tMessage == fromBytes(msg).obj
       IN  /\ Known(clients, msg)
           /\ tMessage.type = "heartbeat"
           /\ clients' = updateClient(clients, tMessage)
           /\ lastFrom' = [lastFrom EXCEPT ![tMessage.id] = tMessage.address]
           /\ Routed(msg, "heartbeat")
  /\ UNCHANGED << codec, numCleaned >>
  /\ UNCHANGED << now, settings, lastCleanup, idCounter, messageCache,
                  sendQueue, pc, exc, messages, assigned, evicted, delivered,
                  sinceCached >>

\* messages.append(tMessage.data), line 312.
appendFirst(list, item) == <<item>> \o list
append(list, item) == Append(list, item)

Bump(h, k) == IF k \in DOMAIN h THEN [h EXCEPT ![k] = Min2(@ + 1, 2)] ELSE h

\* Lines 296, 300-306: a reliable message whose key is in the cache.
getAllDuplicate ==
  /\ Routing
  /\ \E msg \in Datagrams :
       LET tMessage == fromBytes(msg).obj
       IN  /\ Known(clients, msg)
           /\ tMessage.type = "general"
           /\ tMessage.reliable
           /\ isInCache(messageCache, tMessage)
           /\ clients' = updateClient(clients, tMessage)
           /\ sendQueue' = sendResponse(sendQueue,
                             createResponse(tMessage, None, getSettings))
           /\ lastFrom' = [lastFrom EXCEPT ![tMessage.id] = tMessage.address]
           /\ Routed(msg, "duplicate")
  /\ UNCHANGED << codec, numCleaned >>
  /\ UNCHANGED << now, settings, lastCleanup, idCounter, messageCache, pc, exc,
                  messages, assigned, evicted, delivered, sinceCached >>

\* Lines 296, 300-312: a reliable message whose key is not in the cache.
getAllReliable ==
  /\ Routing
  /\ \E msg \in Datagrams :
       LET tMessage == fromBytes(msg).obj
       IN  /\ Known(clients, msg)
           /\ tMessage.type = "general"
           /\ tMessage.reliable
           /\ ~isInCache(messageCache, tMessage)
           /\ clients' = updateClient(clients, tMessage)
           /\ sendQueue' = sendResponse(sendQueue,
                             createResponse(tMessage, None, getSettings))
           /\ messageCache' = cacheMessage(messageCache, tMessage, now)
           /\ messages' = append(messages, tMessage.data)
           /\ delivered' = Bump(delivered, MessageKey(tMessage))
           /\ sinceCached' = Bump(sinceCached, MessageKey(tMessage))
           /\ lastFrom' = [lastFrom EXCEPT ![tMessage.id] = tMessage.address]
           /\ Routed(msg, "reliable")
  /\ UNCHANGED << codec, numCleaned >>
  /\ UNCHANGED << now, settings, lastCleanup, idCounter, pc, exc, assigned,
                  evicted >>

\* Lines 296, 300, 312: an unreliable message.
getAllUnreliable ==
  /\ Routing
  /\ \E msg \in Datagrams :
       LET tMessage == fromBytes(msg).obj
       IN  /\ Known(clients, msg)
           /\ tMessage.type = "general"
           /\ ~tMessage.reliable
           /\ clients' = updateClient(clients, tMessage)
           /\ messages' = append(messages, tMessage.data)
           /\ lastFrom' = [lastFrom EXCEPT ![tMessage.id] = tMessage.address]
           /\ Routed(msg, "unreliable")
  /\ UNCHANGED << codec, numCleaned >>
  /\ UNCHANGED << now, settings, lastCleanup, idCounter, messageCache,
                  sendQueue, pc, exc, assigned, evicted, delivered,
                  sinceCached >>

\* Line 313: the list goes to the caller, the locals are gone.
getAllReturn ==
  /\ pc = "routing" /\ exc = "none" /\ pending = 0
  /\ pc' = "sendAll"
  /\ rawMessage' = <<>>
  /\ messages' = <<>>
  /\ route' = "none"
  /\ UNCHANGED << codec, numCleaned, now, server, exc, pending, history >>

\* ------------------------------------------------------------ Server.sendAll
\* popleft and sendto until the queue is empty.  An entry whose sendto
\* raises is already popped; the error leaves sendAll (only IndexError is
\* caught).  k entries are sent before one fails; k = Len: none fails.
sendAll ==
  /\ pc = "sendAll" /\ exc = "none"
  /\ \E k \in 0..Len(sendQueue) :
       IF k = Len(sendQueue)
         THEN /\ sendQueue' = <<>>
              /\ pc' = "sleep"
              /\ exc' = "none"
         ELSE /\ sendQueue' = SubSeq(sendQueue, k + 2, Len(sendQueue))
              /\ pc' = "sendAll"
              /\ exc' = "OSError"
  /\ UNCHANGED << codec, numCleaned >>
  /\ UNCHANGED << now, settings, lastCleanup, idCounter, clients, messageCache,
                  pending, rawMessage, messages, route, history >>

\* ------------------------------------------------------------ Server.cleanup
RECURSIVE Ascending(_)
\* list(self._clients): a dict lists its keys in insertion order, and the
\* ids are inserted in increasing order.
Ascending(S) ==
  IF S = {} THEN <<>>
  ELSE LET m == CHOOSE x \in S : \A y \in S : x <= y
       IN  <<m>> \o Ascending(S \ {m})

RECURSIVE Notices(_, _, _)
\* Line 341 for each deleted client, in the order of the keys.
Notices(queue, registry, keys) ==
  IF keys = <<>> THEN queue
  ELSE Notices(sendResponse(queue,
                 createMessage(registry[Head(keys)].address, Head(keys))),
               registry, Tail(keys))

\* A cleanup without the gate of line 329.
CleanupNeverTooEarly(t) == FALSE
\* Line 329: the call returns 0 at once.
CleanupTooEarly(t) == lastCleanup > t - cleanupPeriod
\* A line 339 that measures the age against messageTimeout.
ClientExpiredByMessageTimeout(client, timeoutLimit) ==
  client.lastSeen < now - messageTimeout
\* Line 339.
ClientExpired(client, timeoutLimit) == client.lastSeen < timeoutLimit
\* A line 348 whose limit is time() alone, messageTimeout not subtracted.
MessageExpiredNoRetention(received, timeoutLimit) == received < now
\* A line 348 that measures the age against timeout.
MessageExpiredByTimeout(received, timeoutLimit) == received < now - timeout
\* Line 348.
MessageExpired(received, timeoutLimit) == received < timeoutLimit

cleanup ==
  /\ pc = "cleanup" /\ exc = "none"
  /\ pc' = "getAll"
  /\ IF CleanupTooEarly(now)
       THEN /\ numCleaned' = 0
            /\ UNCHANGED << lastCleanup, clients, sendQueue, messageCache,
                            evicted, sinceCached, lastFrom >>
       ELSE LET gone == {k \in DOMAIN clients :
                           ClientExpired(clients[k], now - timeout)}
                old == {k \in DOMAIN messageCache :
                           MessageExpired(messageCache[k], now - messageTimeout)}
            IN  /\ lastCleanup' = now
                /\ numCleaned' = Cardinality(gone)
                /\ clients' = [k \in DOMAIN clients \ gone |-> clients[k]]
                /\ sendQueue' = Notices(sendQueue, clients, Ascending(gone))
                /\ messageCache' =
                     [k \in DOMAIN messageCache \ old |-> messageCache[k]]
                /\ evicted' = evicted \cup gone
                /\ sinceCached' =
                     [k \in Keys |-> IF k \in old THEN 0 ELSE sinceCached[k]]
                /\ lastFrom' = [k \in DOMAIN lastFrom \ gone |-> lastFrom[k]]
  /\ UNCHANGED << codec, now, settings, idCounter, exc, pending, rawMessage,
                  messages, route, assigned, delivered >>

\* ---------------------------------------------------------- specification
Next ==
  \/ Tick
  \/ Wake
  \/ dispatchMessages
  \/ dispatchMessagesRaise
  \/ getAllRaise
  \/ getAllHandshake
  \/ getAllUnknown
  \/ getAllHeartbeat
  \/ getAllDuplicate
  \/ getAllReliable
  \/ getAllUnreliable
  \/ getAllReturn
  \/ sendAll
  \/ cleanup

Spec == Init /\ [][Next]_vars

TypeOK ==
  /\ now \in 0..MaxTime
  /\ lastCleanup \in 0..MaxTime
  /\ idCounter \in 0..MaxClients
  /\ DOMAIN clients \subseteq Ids
  /\ DOMAIN messageCache \subseteq Keys
  /\ pc \in {"cleanup", "getAll", "routing", "sendAll", "sleep"}

\* ------------------------------------------------------- the codec alone
\* One message of each Transport* class, as its constructor builds it.
SettingsDicts == {[timeout |-> s.timeout] : s \in Settings}
TransportMessages ==
  {TransportHandshakeMessage(a) : a \in Addresses}
    \cup {TransportHandshakeResponseMessage(a, i, d) :
            a \in Addresses, i \in Ids, d \in SettingsDicts}
    \cup {TransportHeartbeatMessage(a, i) : a \in Addresses, i \in Ids}
    \cup {TransportDisconnectNotice(a, i) : a \in Addresses, i \in Ids}
    \cup {TransportGeneralMessage(a, d, i, r, n) :
            a \in Addresses, d \in Data, i \in Ids, r \in BOOLEAN,
            n \in MessageIds \cup {None}}
    \cup {TransportGeneralResponse(a, i, n) :
            a \in Addresses, i \in Ids, n \in MessageIds}

\* The server as constructed, and one message to take through the codec.
CodecInit ==
  /\ \E message \in TransportMessages :
       codec = [CodecIdle EXCEPT !.stage = "message", !.message = message]
  /\ now = 0
  /\ timeout = 5 /\ messageTimeout = 10 /\ cleanupPeriod = 5
  /\ lastCleanup = 0
  /\ idCounter = 0
  /\ clients = EmptyMap
  /\ messageCache = EmptyMap
  /\ sendQueue = <<>>
  /\ pc = "cleanup"
  /\ exc = "none"
  /\ pending = 0
  /\ rawMessage = <<>>
  /\ messages = <<>>
  /\ route = "none"
  /\ numCleaned = 0
  /\ assigned = <<>>
  /\ evicted = {}
  /\ delivered = [k \in Keys |-> 0]
  /\ sinceCached = [k \in Keys |-> 0]
  /\ lastFrom = EmptyMap

\* json.dumps(tMessage.toDict()).encode('UTF8'), as sendResponse does it.
encode ==
  /\ codec.stage = "message"
  /\ codec' = [codec EXCEPT !.stage = "encoded",
                            !.bytes = toDict(codec.message)]
  /\ UNCHANGED << now, server, pc, exc, pending, rawMessage, messages, route,
                  numCleaned, history >>

\* TransportMessage.fromBytes((bytes, address)), as getAll does it.
decode ==
  /\ codec.stage = "encoded"
  /\ codec' = [codec EXCEPT
                 !.stage = "decoded",
                 !.result = fromBytes(<<codec.bytes, codec.message.address>>)]
  /\ UNCHANGED << now, server, pc, exc, pending, rawMessage, messages, route,
                  numCleaned, history >>

CodecNext == encode \/ decode

CodecSpec == CodecInit /\ [][CodecNext]_vars

\* ------------------------------------------------- the message cache alone
\* A caller that uses the cache directly: it calls _cacheMessage with any
\* message, calls cleanup, and lets time pass between the calls.
cacheMessageCall ==
  /\ pc = "cleanup" /\ exc = "none"
  /\ \E i \in Ids, n \in MessageIds :
       messageCache' =
         cacheMessage(messageCache, [id |-> i, messageId |-> n], now)
  /\ UNCHANGED << codec, numCleaned, now, settings, lastCleanup, idCounter,
                  clients, sendQueue, pc, exc, pending, rawMessage, messages,
                  route, history >>

\* cleanup has returned to that caller.
cleanupReturn ==
  /\ pc = "getAll" /\ exc = "none"
  /\ pc' = "cleanup"
  /\ UNCHANGED << codec, numCleaned, now, server, exc, pending, rawMessage,
                  messages, route, history >>

timePasses ==
  /\ pc = "cleanup" /\ exc = "none"
  /\ now < MaxTime
  /\ now' = now + 1
  /\ UNCHANGED << codec, numCleaned, server, pc, exc, pending, rawMessage,
                  messages, route, history >>

CacheNext == cacheMessageCall \/ cleanup \/ cleanupReturn \/ timePasses

CacheSpec == Init /\ [][CacheNext]_vars

\* ------------------------------------------------------------- the claims
Range(f) == {f[i] : i \in DOMAIN f}
\* This step routed one drained datagram (rawMessage' is that datagram).
RoutedOne == pc = "routing" /\ pending' = pending - 1
\* What the sender wrote in a request that is not a handshake.
Requests == WellFormed \ {handshakeRequest}
\* The entries this step appended to the send queue.
Appended ==
  IF /\ Len(sendQueue') >= Len(sendQueue)
     /\ SubSeq(sendQueue', 1, Len(sendQueue)) = sendQueue
    THEN SubSeq(sendQueue', Len(sendQueue) + 1, Len(sendQueue'))
    ELSE <<>>

\* C1: the ids handed out by the handshakes are strictly increasing in the
\* order of processing (so pairwise distinct); every id that is registered or
\* was evicted is one of them, and no evicted id is in the registry again.
C1_IdentitiesIncrease ==
  /\ \A i, j \in DOMAIN assigned : i < j => assigned[i] < assigned[j]
  /\ DOMAIN clients \cup evicted \subseteq Range(assigned)
  /\ DOMAIN clients \cap evicted = {}
\* A handshake was answered after an eviction.
C1_Witness == route = "handshake" /\ evicted # {} /\ Len(assigned) = 2

\* C2: every accepted heartbeat or general request of a registered identity
\* sets that session's lastSeen to the current time.
C2_AcceptedSetsLastSeen ==
  [][ \A i \in DOMAIN clients :
        ( /\ RoutedOne
          /\ rawMessage'[1] \in Requests
          /\ rawMessage'[1].id = i )
        => ( i \in DOMAIN clients' /\ clients'[i].lastSeen = now ) ]_vars

\* C3: a reliable request of a registered session whose key is in the message
\* cache adds nothing to the list getAll returns, and as long as the record
\* of a key stays in the cache its payload was appended exactly once.
C3_DuplicateSuppressed ==
  [][ /\ ( /\ RoutedOne
           /\ rawMessage'[1] \in Requests
           /\ rawMessage'[1].type = "general"
           /\ rawMessage'[1].reliable
           /\ rawMessage'[1].id \in DOMAIN clients
           /\ <<rawMessage'[1].id, rawMessage'[1].messageId>>
                \in DOMAIN messageCache )
         => messages' = messages
      /\ \A k \in Keys : k \in DOMAIN messageCache' => sinceCached'[k] = 1
    ]_vars
\* The second arrival of a reliable request was answered and dropped.
C3_Witness ==
  /\ route = "duplicate"
  /\ sinceCached[<<rawMessage[1].id, rawMessage[1].messageId>>] = 1

C5_TimeoutBoundary ==
  [][ /\ pc = "cleanup" =>
           \A i \in DOMAIN clients :
             /\ now - clients[i].lastSeen < timeout => i \in DOMAIN clients'
             /\ ( /\ now - clients[i].lastSeen > timeout
                  /\ now - lastCleanup >= cleanupPeriod )
                => i \notin DOMAIN clients'
      /\ pc # "cleanup" => DOMAIN clients \subseteq DOMAIN clients'
    ]_vars
\* A pass has just evicted one session and kept one that is exactly timeout
\* seconds old.
C5_Witness ==
  /\ pc = "getAll"
  /\ lastCleanup = now
  /\ evicted # {}
  /\ \E i \in DOMAIN clients : now - clients[i].lastSeen = timeout

\* C6: the disconnect notices a step enqueues are exactly one for each
\* session the step removes, carrying its id and addressed to the sender of
\* the last datagram accepted from it; none is for an id evicted before.
C6_OneNoticePerEviction ==
  [][ LET gone == DOMAIN clients \ DOMAIN clients'
          new == Appended
          notices == {n \in DOMAIN new : new[n][1].type = "disconnectNotice"}
      IN  /\ \A i \in gone :
                Cardinality({n \in notices : new[n][1].id = i}) = 1
          /\ \A n \in notices :
                /\ new[n][1].id \in gone
                /\ new[n][1].id \notin evicted
                /\ new[n][2] = lastFrom[new[n][1].id]
    ]_vars
\* A notice waits in the send queue for a session that was evicted.
C6_Witness ==
  /\ pc = "getAll"
  /\ \E n \in DOMAIN sendQueue :
       /\ sendQueue[n][1].type = "disconnectNotice"
       /\ sendQueue[n][1].id \in evicted

\* C7: routing a heartbeat or a general request whose id is not in the
\* registry changes neither the registry, the cache, the send queue, the id
\* counter nor the list getAll returns, and raises nothing.
C7_UnknownSenderIgnored ==
  [][ ( /\ RoutedOne
        /\ rawMessage'[1] \in Requests
        /\ rawMessage'[1].id \notin DOMAIN clients )
      => /\ UNCHANGED << clients, messageCache, sendQueue, messages,
                         idCounter, lastCleanup >>
         /\ exc' = "none"
    ]_vars
\* A reliable request of an evicted identity was routed.
C7_Witness ==
  /\ route = "unknown"
  /\ rawMessage[1].id \in evicted
  /\ rawMessage[1].type = "general"
  /\ rawMessage[1].reliable

\* C8: routing an unreliable general request of a registered session leaves
\* the message cache and the send queue as they are and appends its payload
\* to the list getAll returns.
C8_UnreliableAlwaysDelivered ==
  [][ ( /\ RoutedOne
        /\ rawMessage'[1] \in Requests
        /\ rawMessage'[1].type = "general"
        /\ ~rawMessage'[1].reliable
        /\ rawMessage'[1].id \in DOMAIN clients )
      => /\ messageCache' = messageCache
         /\ sendQueue' = sendQueue
         /\ messages' = Append(messages, rawMessage'[1].data)
    ]_vars
\* Two unreliable requests with the same payload arrived in one cycle and
\* both were delivered.
C8_Witness ==
  /\ route = "unreliable"
  /\ Len(messages) = 2
  /\ messages[1] = messages[2]
  /\ sendQueue = <<>>

\* C9: after getAll has met a datagram that does not decode, no exception
\* has left getAll.
C9_UndecodableDiscarded ==
  (rawMessage # <<>> /\ rawMessage[1] \in Undecodable) => exc = "none"

\* C10: when a transmission fails in sendAll, no entry that was queued at
\* the start of the call is left in the queue without an attempt.
C10_SendAllAttemptsAll ==
  (pc = "sendAll" /\ exc # "none") => sendQueue = <<>>

\* C11: fromBytes applied to the encoding of m.toDict() raises nothing and
\* returns a message of the class of m with every field of m.
C11_RoundTrip ==
  codec.stage = "decoded" =>
    /\ codec.result.exc = "none"
    /\ codec.result.obj.class = codec.message.class
    /\ codec.result.obj = codec.message

\* C12: a cleanup call keeps every record that is less than messageTimeout
\* seconds old, with its timestamp; a cleanup call that passes the gate
\* removes every record that is more than messageTimeout seconds old; nothing
\* but cleanup removes a record; a reliable request of a registered session
\* whose key has no record is delivered and recorded with the current time.
C12_RecordExpiryBoundary ==
  [][ /\ pc = "cleanup" =>
           \A k \in DOMAIN messageCache :
             /\ now - messageCache[k] < messageTimeout
                  => ( /\ k \in DOMAIN messageCache'
                       /\ messageCache'[k] = messageCache[k] )
             /\ ( /\ now - messageCache[k] > messageTimeout
                  /\ now - lastCleanup >= cleanupPeriod )
                => k \notin DOMAIN messageCache'
      /\ pc # "cleanup" => DOMAIN messageCache \subseteq DOMAIN messageCache'
      /\ ( /\ RoutedOne
           /\ rawMessage'[1] \in Requests
           /\ rawMessage'[1].type = "general"
           /\ rawMessage'[1].reliable
           /\ rawMessage'[1].id \in DOMAIN clients
           /\ <<rawMessage'[1].id, rawMessage'[1].messageId>>
                \notin DOMAIN messageCache )
         => /\ messages' = Append(messages, rawMessage'[1].data)
            /\ <<rawMessage'[1].id, rawMessage'[1].messageId>>
                 \in DOMAIN messageCache'
            /\ messageCache'[<<rawMessage'[1].id, rawMessage'[1].messageId>>]
                 = now
    ]_vars
\* In the second of a pass, a request was delivered a second time, as
\* first-seen: cleanup had removed the record of its key and kept the session.
C12_Witness ==
  /\ route = "reliable"
  /\ delivered[<<rawMessage[1].id, rawMessage[1].messageId>>] = 2
  /\ messageCache[<<rawMessage[1].id, rawMessage[1].messageId>>] = now
  /\ lastCleanup = now

\* C13: routing a reliable general request of a registered session, first
\* seen or duplicate, appends exactly one entry to the send queue: a general
\* response with the id and the messageId of the request, addressed to the
\* sender of the datagram.
C13_OneAckPerReliableRequest ==
  [][ ( /\ RoutedOne
        /\ rawMessage'[1] \in Requests
        /\ rawMessage'[1].type = "general"
        /\ rawMessage'[1].reliable
        /\ rawMessage'[1].id \in DOMAIN clients )
      => Appended =
           << << [json |-> TRUE, type |-> "general", response |-> TRUE,
                  id |-> rawMessage'[1].id, reliable |-> TRUE,
                  messageId |-> rawMessage'[1].messageId, data |-> ""],
                 rawMessage'[2] >> >>
    ]_vars
\* A request and its retransmission from another endpoint arrived in one
\* cycle: two acknowledgments with the same messageId wait in the queue, one
\* for each endpoint.
C13_Witness ==
  /\ route = "duplicate"
  /\ Len(sendQueue) = 2
  /\ sendQueue[1][1] = sendQueue[2][1]
  /\ sendQueue[1][1].response
  /\ sendQueue[1][1].messageId = rawMessage[1].messageId
  /\ sendQueue[1][2] # sendQueue[2][2]

\* C14: routing a handshake request adds exactly one session to the
\* registry, under an id that was not registered, with the sender as its
\* address; it appends exactly one entry to the send queue, a handshake
\* response with that id and the timeout setting, addressed to the sender; it
\* leaves the list getAll returns and the message cache as they are.
C14_HandshakeCreatesSession ==
  [][ ( RoutedOne /\ rawMessage'[1] = handshakeRequest )
      => /\ idCounter' \notin DOMAIN clients
         /\ DOMAIN clients' = DOMAIN clients \cup {idCounter'}
         /\ \A i \in DOMAIN clients : clients'[i] = clients[i]
         /\ clients'[idCounter'] =
              [address |-> rawMessage'[2], lastSeen |-> now]
         /\ Appended =
              << << [json |-> TRUE, type |-> "handshake", response |-> TRUE,
                     id |-> idCounter', settings |-> [timeout |-> timeout]],
                    rawMessage'[2] >> >>
         /\ messages' = messages
         /\ messageCache' = messageCache
    ]_vars
\* Two handshakes of one endpoint: two sessions with the same address, and
\* the response to the second one is the last entry of the send queue.
C14_Witness ==
  /\ route = "handshake"
  /\ DOMAIN clients = {1, 2}
  /\ clients[1].address = clients[2].address
  /\ sendQueue # <<>>
  /\ sendQueue[Len(sendQueue)][1].id = 2
  /\ sendQueue[Len(sendQueue)][2] = clients[2].address

\* C15: a cleanup call made less than cleanupPeriod seconds after the last
\* pass (or the construction) leaves the registry, the message cache, the
\* send queue and the time of the last pass as they are and returns 0; the
\* time of the last pass only ever moves by cleanupPeriod seconds or more.
C15_MaintenanceGate ==
  [][ /\ ( pc = "cleanup" /\ now - lastCleanup < cleanupPeriod )
         => /\ UNCHANGED << clients, messageCache, sendQueue, lastCleanup >>
            /\ numCleaned' = 0
      /\ lastCleanup' # lastCleanup
         => ( /\ pc = "cleanup"
              /\ lastCleanup' = now
              /\ lastCleanup' - lastCleanup >= cleanupPeriod )
    ]_vars
\* After a pass that ran, a call was stopped at the gate while a session and
\* a record were past their limits.
C15_Witness ==
  /\ pc = "getAll"
  /\ 0 < lastCleanup /\ lastCleanup < now
  /\ \E i \in DOMAIN clients : clients[i].lastSeen < now - timeout
  /\ \E k \in DOMAIN messageCache : messageCache[k] < now - messageTimeout

\* C16: each routed datagram is judged against the registry and the cache as
\* the datagrams before it left them; its payload goes to the end of the
\* list getAll returns when it is accepted, and the list stays as it is
\* otherwise, so the list holds the accepted payloads in arrival order.
C16_ProcessedInArrivalOrder ==
  [][ ( RoutedOne /\ exc' = "none" )
      => messages' =
           IF /\ rawMessage'[1] \in Requests
              /\ rawMessage'[1].type = "general"
              /\ rawMessage'[1].id \in DOMAIN clients
              /\ ( rawMessage'[1].reliable =>
                     <<rawMessage'[1].id, rawMessage'[1].messageId>>
                       \notin DOMAIN messageCache )
             THEN messages \o <<rawMessage'[1].data>>
             ELSE messages
    ]_vars
\* A handshake and a request under the id it was given arrived in one cycle
\* (the response to the handshake is still in the send queue, which sendAll
\* empties in every cycle): the request was accepted.
C16_Witness ==
  /\ route \in {"reliable", "unreliable"}
  /\ messages = <<rawMessage[1].data>>
  /\ sendQueue # <<>>
  /\ sendQueue[1][1].type = "handshake"
  /\ sendQueue[1][1].id = rawMessage[1].id
\* Two different payloads arrived in one cycle and are listed in the order
\* of their arrival.
C16_WitnessOrder ==
  /\ pc = "routing" /\ pending = 0
  /\ Len(messages) = 2
  /\ messages[1] # messages[2]
  /\ messages[2] = rawMessage[1].data

\* C17: when a read of the drain fails with an error that is not would-block,
\* no datagram read before the failure is left without being routed.
C17_ReadFailureKeepsDrained ==
  (pc = "getAll" /\ exc = "OSError") => pending = 0

C19_FirstReceiptWins ==
  [][ \A k \in DOMAIN messageCache \cap DOMAIN messageCache' :
        messageCache'[k] = messageCache[k] ]_vars

=============================================================================
